---- MODULE Spec2Model ----
(***************************************************************************)
(* Model of criar_grade_tiles.py: the slippy-tile grid generator.          *)
(*                                                                         *)
(* Number representation.  The program computes in IEEE doubles.           *)
(*   - A longitude is an integer count of 1/LonScale degree.  On this grid *)
(*     every step of the longitude arithmetic of lines 26, 32 and 34 is    *)
(*     exact in doubles for zoom <= 6 (n is a power of two dividing        *)
(*     360 * LonScale), except the division by 360.0, whose rounding error *)
(*     (about 1e-16) is far below the distance 1 / (360 * LonScale) of a   *)
(*     non-integer quotient from the next integer.  Integer arithmetic     *)
(*     therefore gives the program's own results.                          *)
(*   - A latitude is the double rounded to a whole number of microdegrees. *)
(*     Latitudes range over LatSamples and over the tile-edge latitudes    *)
(*     the program itself produces (LatOfFrac); distinct doubles of that   *)
(*     set have distinct, equally ordered microdegree values.              *)
(*   - The transcendental expressions of lines 27, 33 and 35 are tabulated *)
(*     at those latitudes with the values the double computation returns   *)
(*     (CPython 3, glibc libm): MercatorFix is the double of line 27       *)
(*     before the multiplication by n, truncated to a multiple of          *)
(*     1 / MercScale; as n divides MercScale, int(E * n) computed from it  *)
(*     equals the program's int(E * n) for every tabulated latitude and    *)
(*     every zoom <= 4 (Grid = 2^4).                                       *)
(***************************************************************************)
EXTENDS Integers, Sequences, FiniteSets, TLC

\* ------------------------------------------------------------------ bounds
MaxZoom == 3
MaxCalls == 3

\* ---------------------------------------------------------- representation
LonScale == 2 ^ 3            \* longitude unit: 1/8 degree
MercScale == 2 ^ 20          \* resolution of the tabulated Mercator fraction
Grid == 2 ^ 4                \* the tables hold the tile edges of zoom <= 4

Deg(d) == d * LonScale        \* whole degrees of longitude
LatDeg(d) == d * 1000000      \* whole degrees of latitude

\* int(): Python's conversion of a float to an integer drops the fraction,
\* rounding toward zero.  Trunc(a, b) is int(a / b) for b > 0.
Trunc(a, b) == IF a >= 0 THEN a \div b ELSE -((-a) \div b)

\* math.floor of a / b, for b > 0 (the integer division of TLA+ floors).
Floor(a, b) == a \div b

\* degrees(atan(sinh(pi * (1 - 2 * y / n)))) with y / n = k / Grid.  2 * y / n
\* is exact in doubles, so the value depends on the fraction alone.
LatOfFrac(k) ==
    CASE k = -5 -> 89304919
      [] k = -4 -> 88970618
      [] k = -3 -> 88475563
      [] k = -2 -> 87742509
      [] k = -1 -> 86657234
      [] k = 0 -> 85051129
      [] k = 1 -> 82676285
      [] k = 2 -> 79171335
      [] k = 3 -> 74019543
      [] k = 4 -> 66513260
      [] k = 5 -> 55776573
      [] k = 6 -> 40979898
      [] k = 7 -> 21943046
      [] k = 8 -> 0
      [] k = 9 -> -21943046
      [] k = 10 -> -40979898
      [] k = 11 -> -55776573
      [] k = 12 -> -66513260
      [] k = 13 -> -74019543
      [] k = 14 -> -79171335
      [] k = 15 -> -82676285
      [] k = 16 -> -85051129
      [] k = 17 -> -86657234

\* (1.0 - log(tan(radians(lat)) + 1 / cos(radians(lat))) / pi) / 2.0 as the
\* double computation returns it, in units of 1 / MercScale, fraction dropped.
\* The tile edges are not mapped back exactly: 66.51326044311186 (k = 4)
\* gives 0.24999999999999994, not 0.25.
MercatorFix(lat) ==
    CASE lat = 89304919 -> -327680
      [] lat = 89000000 -> -266976
      [] lat = 88970618 -> -262144
      [] lat = 88475563 -> -196607
      [] lat = 87742509 -> -131071
      [] lat = 86657234 -> -65536
      [] lat = 85051129 -> 0
      [] lat = 85000000 -> 1717
      [] lat = 82676285 -> 65535
      [] lat = 79171335 -> 131072
      [] lat = 74019543 -> 196608
      [] lat = 66513260 -> 262143
      [] lat = 60000000 -> 304506
      [] lat = 55776573 -> 327680
      [] lat = 50000000 -> 355619
      [] lat = 40979898 -> 393216
      [] lat = 21943046 -> 458752
      [] lat = 0 -> 524288
      [] lat = -21943046 -> 589824
      [] lat = -40979898 -> 655360
      [] lat = -55776573 -> 720895
      [] lat = -66513260 -> 786432
      [] lat = -74019543 -> 851968
      [] lat = -79171335 -> 917504
      [] lat = -82676285 -> 983040
      [] lat = -85000000 -> 1046858
      [] lat = -85051129 -> 1048575
      [] lat = -86657234 -> 1114111

\* x / n * 360.0 - 180.0 (lines 32, 34)
LonOfTile(x, n) == (x * 360 * LonScale) \div n - 180 * LonScale

\* degrees(atan(sinh(pi * (1 - 2 * y / n)))) (lines 33, 35)
LatOfTile(y, n) == LatOfFrac(y * (Grid \div n))

\* ------------------------------------------------------- the two transforms
\* A plausible bug: the pair is returned as (ytile, xtile).
latlon_to_tile_coords_yx(lat, lon, zoom) ==
    LET n == 2 ^ zoom
        xtile == Trunc((lon + 180 * LonScale) * n, 360 * LonScale)
        ytile == Trunc(MercatorFix(lat) * n, MercScale)
    IN  <<ytile, xtile>>

\* Lines 24-28.  lat and lon are the parameters in that order.
latlon_to_tile_coords(lat, lon, zoom) ==
    LET n == 2 ^ zoom
        xtile == Trunc((lon + 180 * LonScale) * n, 360 * LonScale)
        ytile == Trunc(MercatorFix(lat) * n, MercScale)
    IN  <<xtile, ytile>>

\* A plausible bug: the latitudes are returned in the order they were computed,
\* the northern edge (lat1) as the minimum.
tile_coords_to_bounds_unswapped(x, y, zoom) ==
    LET n == 2 ^ zoom
        lon1 == LonOfTile(x, n)
        lat1 == LatOfTile(y, n)
        lon2 == LonOfTile(x + 1, n)
        lat2 == LatOfTile(y + 1, n)
    IN  <<lon1, lat1, lon2, lat2>>

\* Lines 30-36.  lat1 is the northern edge and lat2 the southern one; the
\* bounds are returned as (lon1, lat2, lon2, lat1).
tile_coords_to_bounds(x, y, zoom) ==
    LET n == 2 ^ zoom
        lon1 == LonOfTile(x, n)
        lat1 == LatOfTile(y, n)
        lon2 == LonOfTile(x + 1, n)
        lat2 == LatOfTile(y + 1, n)
    IN  <<lon1, lat2, lon2, lat1>>

\* ------------------------------------------------------------------ inputs
Zooms == 0..MaxZoom

\* -200, -180, 5, 10 and 180 degrees of longitude
LonSamples == {Deg(-200), Deg(-180), Deg(5), Deg(10), Deg(180)}

\* -85, 0, 50, 60, 85 and 89 degrees of latitude
LatSamples == {LatDeg(-85), 0, LatDeg(50), LatDeg(60), LatDeg(85), LatDeg(89)}

\* every bounding box over the samples, valid or not: <<min_lon, min_lat, max_lon, max_lat>>
AllBoxes == LonSamples \X LatSamples \X LonSamples \X LatSamples

\* the boxes of the repeated calls
Boxes ==
    { <<Deg(10), LatDeg(50), Deg(5), LatDeg(60)>>,
      <<Deg(5), LatDeg(60), Deg(10), LatDeg(50)>>,
      <<Deg(5), LatDeg(50), Deg(10), LatDeg(60)>>,
      <<Deg(-180), LatDeg(50), Deg(10), LatDeg(85)>> }

\* the latitudes the transforms are probed at: the samples and the tile edges
EdgeLats == {LatOfFrac(k) : k \in 0..Grid}
LatPoints == LatSamples \cup EdgeLats

\* the longitudes the transforms are probed at: the samples, -181, -135 (a
\* tile edge), 0 and 179.875 degrees
LonPoints == LonSamples \cup {Deg(-181), Deg(-135), 0, Deg(180) - 1}

Probes ==
    { <<"point", lat, lon, zoom>> : lat \in LatPoints, lon \in LonPoints, zoom \in Zooms }
    \cup
    UNION { { <<"tile", tx, ty, zoom>> : tx \in 0..(2 ^ zoom - 1), ty \in 0..(2 ^ zoom - 1) }
            : zoom \in Zooms }

\* ------------------------------------------------------------------- state
VARIABLES
    pc,         \* "idle": no call is running; "loop": a call is in its tile loop;
                \* "transform": a transform is applied on its own
    args,       \* the arguments of the call last made: <<zoom, min_lon, min_lat, max_lon, max_lat>>
    frame,      \* the locals of the running call: <<>> or <<[x_min, y_max, x_max, y_min, layer, x, y]>>
    registry,   \* QgsProject.instance(): the layers registered, in order
    err,        \* how the call last made ended or stands: "none" or "ValueError"
    calls,      \* history: the number of calls made
    raised,     \* history: the number of calls that raised
    callArgs,   \* history: the arguments of the calls that reached addMapLayer, in order
    probe,      \* the input of a transform applied on its own, or <<>>
    tout,       \* its result, or <<>>
    tback       \* latlon_to_tile_coords of the northwest corner of tout, or <<>>

vars == <<pc, args, frame, registry, err, calls, raised, callArgs, probe, tout, tback>>

\* ----------------------------------------------------------- the host's API
FieldNames == <<"x", "y", "zoom", "lon_min", "lat_min", "lon_max", "lat_max">>

\* "{:.3f}" of a latitude (microdegrees) and of a longitude (1/8 degree), in
\* thousandths of a degree
Fmt3Lat(lat) == IF lat >= 0 THEN (lat + 500) \div 1000 ELSE -((500 - lat) \div 1000)
Fmt3Lon(lon) == (lon * 1000) \div LonScale

\* f"grid_z{zoom}_{min_lat:.3f}_{min_lon:.3f}"
LayerName(zoom, min_lat, min_lon) == <<"grid_z", zoom, Fmt3Lat(min_lat), Fmt3Lon(min_lon)>>

\* A plausible bug: the layer of that name already in the project is reused.
NewLayerReuse(name) ==
    IF \E i \in DOMAIN registry : registry[i].name = name
    THEN LET i == CHOOSE i \in DOMAIN registry : registry[i].name = name
         IN  registry[i]
    ELSE [name |-> name, fields |-> FieldNames, features |-> <<>>, extent |-> <<>>]

\* QgsVectorLayer("Polygon?crs=EPSG:4326", layer_name, "memory") with its fields:
\* a new, empty memory layer
NewLayer(name) == [name |-> name, fields |-> FieldNames, features |-> <<>>, extent |-> <<>>]

Min2(a, b) == IF a <= b THEN a ELSE b
Max2(a, b) == IF a >= b THEN a ELSE b

\* QgsRectangle(xMin, yMin, xMax, yMax) normalises: <<xMinimum, yMinimum, xMaximum, yMaximum>>
QgsRectangle(x1, y1, x2, y2) == <<Min2(x1, x2), Min2(y1, y2), Max2(x1, x2), Max2(y1, y2)>>

\* the closed ring of five points
Ring(rect) ==
    << <<rect[1], rect[2]>>, <<rect[3], rect[2]>>, <<rect[3], rect[4]>>,
       <<rect[1], rect[4]>>, <<rect[1], rect[2]>> >>

\* the feature of one iteration of the loop
Feature(tx, ty, zoom) ==
    LET b == tile_coords_to_bounds(tx, ty, zoom)
        lon1 == b[1]
        lat1 == b[2]
        lon2 == b[3]
        lat2 == b[4]
        rect == QgsRectangle(lon1, lat1, lon2, lat2)
    IN  [geometry |-> Ring(rect), attributes |-> <<tx, ty, zoom, lon1, lat1, lon2, lat2>>]

\* layer.updateExtents(): the rectangle around every feature, <<>> for none
updateExtents(l) ==
    LET fs == l.features
        I == DOMAIN fs
        pts == UNION { {fs[i].geometry[j] : j \in 1..5} : i \in I }
        lo(c) == CHOOSE v \in {p[c] : p \in pts} : \A p \in pts : v <= p[c]
        hi(c) == CHOOSE v \in {p[c] : p \in pts} : \A p \in pts : v >= p[c]
    IN  [l EXCEPT !.extent = IF I = {} THEN <<>> ELSE <<lo(1), lo(2), hi(1), hi(2)>>]

\* A plausible bug: a layer of the same name replaces the one registered.
addMapLayerReplace(reg, l) ==
    IF \E i \in DOMAIN reg : reg[i].name = l.name
    THEN [i \in DOMAIN reg |-> IF reg[i].name = l.name THEN l ELSE reg[i]]
    ELSE Append(reg, l)

\* QgsProject.instance().addMapLayer(layer)
addMapLayer(reg, l) == Append(reg, l)

\* ------------------------------------------------------- criar_grade_tiles
\* A plausible bug: "and" for "or".
InvalidBoundsAnd(min_lon, min_lat, max_lon, max_lat) == min_lat > max_lat /\ min_lon > max_lon

InvalidBounds(min_lon, min_lat, max_lon, max_lat) == min_lat > max_lat \/ min_lon > max_lon

\* A plausible bug: the latitude inversion is lost.
TileRangeStraight(zoom, min_lon, min_lat, max_lon, max_lat) ==
    LET lo == latlon_to_tile_coords(min_lat, min_lon, zoom)
        hi == latlon_to_tile_coords(max_lat, max_lon, zoom)
    IN  [x_min |-> lo[1], y_min |-> lo[2], x_max |-> hi[1], y_max |-> hi[2]]

\* x_min, y_max = latlon_to_tile_coords(min_lat, min_lon, zoom)
\* x_max, y_min = latlon_to_tile_coords(max_lat, max_lon, zoom)
TileRange(zoom, min_lon, min_lat, max_lon, max_lat) ==
    LET lo == latlon_to_tile_coords(min_lat, min_lon, zoom)
        hi == latlon_to_tile_coords(max_lat, max_lon, zoom)
    IN  [x_min |-> lo[1], y_max |-> lo[2], x_max |-> hi[1], y_min |-> hi[2]]

\* A plausible bug: the stop of the range is taken as its last value less one.
InRangeShort(v, start, stop) == start <= v /\ v < stop - 1

\* v in range(start, stop)
InRange(v, start, stop) == start <= v /\ v < stop

\* the loop of a frame has a tile left to emit
InLoop(f) == InRange(f.x, f.x_min, f.x_max + 1) /\ InRange(f.y, f.y_min, f.y_max + 1)

\* Lines 8-54: the bounds check, the tile range, the empty layer.
Call(zoom, min_lon, min_lat, max_lon, max_lat) ==
    /\ pc = "idle"
    /\ calls' = calls + 1
    /\ args' = <<zoom, min_lon, min_lat, max_lon, max_lat>>
    /\ IF InvalidBounds(min_lon, min_lat, max_lon, max_lat)
       THEN /\ err' = "ValueError"
            /\ raised' = raised + 1
            /\ UNCHANGED <<pc, frame>>
       ELSE LET r == TileRange(zoom, min_lon, min_lat, max_lon, max_lat)
                layer == NewLayer(LayerName(zoom, min_lat, min_lon))
            IN  /\ err' = "none"
                /\ raised' = raised
                /\ pc' = "loop"
                /\ frame' = << [x_min |-> r.x_min, y_max |-> r.y_max,
                                x_max |-> r.x_max, y_min |-> r.y_min,
                                layer |-> layer, x |-> r.x_min, y |-> r.y_min] >>
    /\ UNCHANGED <<registry, callArgs, probe, tout, tback>>

\* Lines 56-70: one iteration of the nested loop.
AddFeature ==
    /\ pc = "loop"
    /\ InLoop(frame[1])
    /\ LET f == frame[1]
           feat == Feature(f.x, f.y, args[1])
           l == [f.layer EXCEPT !.features = Append(@, feat)]
       IN  frame' = << IF InRange(f.y + 1, f.y_min, f.y_max + 1)
                       THEN [f EXCEPT !.layer = l, !.y = f.y + 1]
                       ELSE [f EXCEPT !.layer = l, !.x = f.x + 1, !.y = f.y_min] >>
    /\ UNCHANGED <<pc, args, registry, err, calls, raised, callArgs, probe, tout, tback>>

\* Lines 72-74: the loop is over; the layer is registered and the call returns.
Finish ==
    /\ pc = "loop"
    /\ ~InLoop(frame[1])
    /\ registry' = addMapLayer(registry, updateExtents(frame[1].layer))
    /\ callArgs' = Append(callArgs, args)
    /\ frame' = <<>>
    /\ pc' = "idle"
    /\ UNCHANGED <<args, err, calls, raised, probe, tout, tback>>

Init ==
    /\ pc = "idle"
    /\ args = <<>>
    /\ frame = <<>>
    /\ registry = <<>>
    /\ err = "none"
    /\ calls = 0
    /\ raised = 0
    /\ callArgs = <<>>
    /\ probe = <<>>
    /\ tout = <<>>
    /\ tback = <<>>

\* calls in sequence, over the boxes of the repeated calls
Next ==
    \/ \E zoom \in Zooms, b \in Boxes :
          calls < MaxCalls /\ Call(zoom, b[1], b[2], b[3], b[4])
    \/ AddFeature
    \/ Finish

Spec == Init /\ [][Next]_vars

\* one call, over every box of the samples
NextGrid ==
    \/ \E zoom \in Zooms, b \in AllBoxes :
          calls = 0 /\ Call(zoom, b[1], b[2], b[3], b[4])
    \/ AddFeature
    \/ Finish

SpecGrid == Init /\ [][NextGrid]_vars

\* ---------------------------------------------- the transforms on their own
InitT ==
    /\ pc = "transform"
    /\ args = <<>>
    /\ frame = <<>>
    /\ registry = <<>>
    /\ err = "none"
    /\ calls = 0
    /\ raised = 0
    /\ callArgs = <<>>
    /\ probe \in Probes
    /\ tout = <<>>
    /\ tback = <<>>

TLatLon ==
    /\ pc = "transform"
    /\ probe[1] = "point"
    /\ tout = <<>>
    /\ tout' = latlon_to_tile_coords(probe[2], probe[3], probe[4])
    /\ UNCHANGED <<pc, args, frame, registry, err, calls, raised, callArgs, probe, tback>>

TBounds ==
    /\ pc = "transform"
    /\ probe[1] = "tile"
    /\ tout = <<>>
    /\ tout' = tile_coords_to_bounds(probe[2], probe[3], probe[4])
    /\ UNCHANGED <<pc, args, frame, registry, err, calls, raised, callArgs, probe, tback>>

\* latlon_to_tile_coords of the northwest corner (lat_max, lon_min) of the bounds
TInvert ==
    /\ pc = "transform"
    /\ probe[1] = "tile"
    /\ tout # <<>>
    /\ tback = <<>>
    /\ tback' = latlon_to_tile_coords(tout[4], tout[1], probe[4])
    /\ UNCHANGED <<pc, args, frame, registry, err, calls, raised, callArgs, probe, tout>>

NextT == TLatLon \/ TBounds \/ TInvert

SpecT == InitT /\ [][NextT]_vars

\* ================================================================== claims
\* readings of the arguments of the call last made
ArgZoom == args[1]
ArgMinLon == args[2]
ArgMinLat == args[3]
ArgMaxLon == args[4]
ArgMaxLat == args[5]

\* the tile pairs of a layer's features, in the order they were added
TilesOf(l) == [i \in DOMAIN l.features |-> <<l.features[i].attributes[1], l.features[i].attributes[2]>>]

NoRepeat(sq) == \A i, j \in DOMAIN sq : sq[i] = sq[j] => i = j

Range(sq) == {sq[i] : i \in DOMAIN sq}

\* the tile rectangle of the arguments, as the claims define it
ArgLo == latlon_to_tile_coords(ArgMinLat, ArgMinLon, ArgZoom)
ArgHi == latlon_to_tile_coords(ArgMaxLat, ArgMaxLon, ArgZoom)
ArgRect == (ArgLo[1]..ArgHi[1]) \X (ArgHi[2]..ArgLo[2])

\* C1: a call with min_lat > max_lat or min_lon > max_lon raises the
\* invalid-bounds error and produces nothing: no tile index is computed and no
\* layer is created (the call has no frame), no feature is added and the
\* project's registry is as it was.
C1_InvalidBoundsRaise ==
    [][ (calls' = calls + 1 /\ (args'[3] > args'[5] \/ args'[2] > args'[4]))
        => /\ err' = "ValueError"
           /\ raised' = raised + 1
           /\ pc' = "idle"
           /\ frame' = <<>>
           /\ registry' = registry
           /\ callArgs' = callArgs ]_vars

\* C1 witness: the call (min_lon=10, min_lat=50, max_lon=5, max_lat=60) has
\* raised, with a layer of an earlier call in the project.
C1_Witness ==
    /\ err = "ValueError"
    /\ args = <<MaxZoom, Deg(10), LatDeg(50), Deg(5), LatDeg(60)>>
    /\ pc = "idle"
    /\ frame = <<>>
    /\ Len(registry) = 1

\* C2: the call (zoom=0, -180, -85, 180, 85) yields exactly one tile, x=0, y=0,
\* zoom=0, with lon_min=-180 and lon_max=180.
C2_WorldOneTile ==
    (pc = "idle" /\ calls = 1 /\ err = "none"
        /\ args = <<0, Deg(-180), LatDeg(-85), Deg(180), LatDeg(85)>>)
    => /\ Len(registry) = 1
       /\ Len(registry[1].features) = 1
       /\ registry[1].features[1].attributes[1] = 0
       /\ registry[1].features[1].attributes[2] = 0
       /\ registry[1].features[1].attributes[3] = 0
       /\ registry[1].features[1].attributes[4] = Deg(-180)
       /\ registry[1].features[1].attributes[6] = Deg(180)

\* C3: for -180 <= lon <= 180 and |lat| < 85.05, latlon_to_tile_coords returns
\* x and y in [0, 2^zoom - 1], lon = 180 included.
C3_IndicesInRange ==
    (probe # <<>> /\ probe[1] = "point" /\ tout # <<>>
        /\ Deg(-180) <= probe[3] /\ probe[3] <= Deg(180)
        /\ -85050000 < probe[2] /\ probe[2] < 85050000)
    => /\ tout[1] \in 0..(2 ^ probe[4] - 1)
       /\ tout[2] \in 0..(2 ^ probe[4] - 1)

\* C4: the tiles emitted by a valid call are exactly the pairs of the rectangle
\* x_min..x_max by y_min..y_max, each once and none outside it, so their number
\* is (x_max - x_min + 1) * (y_max - y_min + 1).
C4_ExactRectangle ==
    /\ pc = "loop" =>
          /\ Range(TilesOf(frame[1].layer)) \subseteq ArgRect
          /\ NoRepeat(TilesOf(frame[1].layer))
    /\ (pc = "idle" /\ Len(registry) = 1) =>
          /\ Range(TilesOf(registry[1])) = ArgRect
          /\ NoRepeat(TilesOf(registry[1]))
          /\ Len(registry[1].features)
                = (ArgHi[1] - ArgLo[1] + 1) * (ArgLo[2] - ArgHi[2] + 1)

\* C4 witness: a call has returned with a grid of several columns and rows.
C4_Witness ==
    /\ pc = "idle"
    /\ Len(registry) = 1
    /\ ArgHi[1] - ArgLo[1] >= 2
    /\ ArgLo[2] - ArgHi[2] >= 2
    /\ Len(registry[1].features) >= 9

\* C5: latlon_to_tile_coords rounds toward negative infinity: x is the floor of
\* (lon + 180) / 360 * 2^zoom and y the floor of its Mercator expression, also
\* where they are negative.
C5_FloorRounding ==
    (probe # <<>> /\ probe[1] = "point" /\ tout # <<>>)
    => /\ tout[1] = Floor((probe[3] + 180 * LonScale) * 2 ^ probe[4], 360 * LonScale)
       /\ tout[2] = Floor(MercatorFix(probe[2]) * 2 ^ probe[4], MercScale)

C7_Idempotent ==
    \A i, j \in DOMAIN registry :
        (i \in DOMAIN callArgs /\ j \in DOMAIN callArgs /\ callArgs[i] = callArgs[j])
        => registry[i].features = registry[j].features

\* C7 witness: the same call was made twice and gave several tiles each time.
C7_Witness ==
    /\ Len(registry) >= 2
    /\ Len(callArgs) >= 2
    /\ callArgs[1] = callArgs[2]
    /\ Len(registry[2].features) >= 2

\* every layer there is: the one being filled and the registered ones
AllLayers == {frame[i].layer : i \in DOMAIN frame} \cup Range(registry)

\* C8: the attribute record of a tile (x, y) at zoom z is
\* <<x, y, zoom, f_lon(x), f_lat(y+1), f_lon(x+1), f_lat(y)>>, with
\* lon_min < lon_max and lat_min < lat_max.
C8_AttributeRecord ==
    \A l \in AllLayers : \A i \in DOMAIN l.features :
        LET a == l.features[i].attributes
            n == 2 ^ ArgZoom
        IN  /\ Len(a) = 7
            /\ a[3] = ArgZoom
            /\ a[4] = LonOfTile(a[1], n)
            /\ a[5] = LatOfTile(a[2] + 1, n)
            /\ a[6] = LonOfTile(a[1] + 1, n)
            /\ a[7] = LatOfTile(a[2], n)
            /\ a[4] < a[6]
            /\ a[5] < a[7]

\* C8 witness: a registered layer holds the record of tile (1, 2) of zoom 3.
C8_Witness ==
    /\ pc = "idle"
    /\ Len(registry) = 1
    /\ \E i \in DOMAIN registry[1].features :
          registry[1].features[i].attributes
              = <<1, 2, 3, Deg(-135), LatOfFrac(6), Deg(-90), LatOfFrac(4)>>

\* the box of the call has its latitudes within (-85.05, 85.05)
ArgLatsInDomain ==
    /\ -85050000 < ArgMinLat
    /\ ArgMinLat <= ArgMaxLat
    /\ ArgMaxLat < 85050000

\* the points probed that lie in the box of the call
ArgPoints ==
    { p \in LatPoints \X LonPoints :
        /\ ArgMinLat <= p[1] /\ p[1] <= ArgMaxLat
        /\ ArgMinLon <= p[2] /\ p[2] <= ArgMaxLon }

\* C9: for a valid box with latitudes in (-85.05, 85.05) the tile range is not
\* empty, the minimum latitude giving the maximum y; the tile of every point of
\* the box is one of the tiles emitted; at least one tile is emitted.
C9_Coverage ==
    (pc = "idle" /\ Len(registry) = 1 /\ ArgLatsInDomain)
    => /\ ArgLo[1] <= ArgHi[1]
       /\ ArgHi[2] <= ArgLo[2]
       /\ \A p \in ArgPoints :
             latlon_to_tile_coords(p[1], p[2], ArgZoom) \in Range(TilesOf(registry[1]))
       /\ Len(registry[1].features) >= 1

\* C9 witness: a call has returned whose box holds points of several tiles,
\* corners apart.
C9_Witness ==
    /\ pc = "idle"
    /\ Len(registry) = 1
    /\ ArgLatsInDomain
    /\ \E p, q \in ArgPoints :
          /\ p[1] \notin {ArgMinLat, ArgMaxLat}
          /\ q[2] \notin {ArgMinLon, ArgMaxLon}
          /\ latlon_to_tile_coords(p[1], p[2], ArgZoom)[2] \notin {ArgLo[2], ArgHi[2]}
          /\ latlon_to_tile_coords(q[1], q[2], ArgZoom)[1] \notin {ArgLo[1], ArgHi[1]}

\* the number of tiles of the rectangle of a call's arguments
RectSize(a) ==
    LET lo == latlon_to_tile_coords(a[3], a[2], a[1])
        hi == latlon_to_tile_coords(a[5], a[4], a[1])
    IN  Cardinality((lo[1]..hi[1]) \X (hi[2]..lo[2]))

\* C10: the registry changes only as the last step of a call that has added
\* every tile, and then by one layer appended; a call that raises leaves it
\* alone; so the layers are as many as the calls that succeeded, a repeated
\* call adding a second layer, and no layer registered is partial.
C10_RegistryStep ==
    (calls' # calls /\ err' = "ValueError" => registry' = registry)
    /\ (registry' # registry =>
           /\ pc = "loop"
           /\ pc' = "idle"
           /\ Len(frame[1].layer.features) = RectSize(args)
           /\ Len(registry') = Len(registry) + 1
           /\ SubSeq(registry', 1, Len(registry)) = registry
           /\ registry'[Len(registry')].name = frame[1].layer.name
           /\ registry'[Len(registry')].features = frame[1].layer.features)

C10_RegistryState ==
    /\ Len(registry) = calls - raised - (IF pc = "loop" THEN 1 ELSE 0)
    /\ Len(callArgs) = Len(registry)
    /\ \A i \in DOMAIN registry : Len(registry[i].features) = RectSize(callArgs[i])

C10_RegistryOnlyOnSuccess == [](C10_RegistryState) /\ [][C10_RegistryStep]_vars

\* C10 witness: one call raised and the same call succeeded twice, leaving two
\* layers of one name.
C10_Witness ==
    /\ pc = "idle"
    /\ raised = 1
    /\ Len(registry) = 2
    /\ callArgs[1] = callArgs[2]
    /\ registry[1].name = registry[2].name
    /\ Len(registry[1].features) >= 2

====
